---- MODULE Spec2Model ----
(***************************************************************************)
(* Model of internal/sync.go: the reconciliation of a Google directory     *)
(* (source) into an AWS SSO SCIM directory (target).                       *)
(*                                                                         *)
(* One action per statement of SyncUsers, SyncGroups and DoSync that calls *)
(* a directory port or returns.  The two directory clients (packages aws   *)
(* and google) are modelled by their contract: every call either fails     *)
(* with an error or succeeds with the documented effect.                   *)
(***************************************************************************)
EXTENDS Integers, Sequences, FiniteSets, TLC

(***************************************************************************)
(* Bounds of the model.                                                    *)
(***************************************************************************)
MaxDeleted == 1

MaxGoogleGroups == 1

Emails == {"a", "b"}

GroupNames == {"G", "H"}

\* The username the target may assign to a principal instead of its email.
Alias == [a |-> "ua", b |-> "ub"]

\* Attributes of the source principals.
GivenName == [a |-> "Ga", b |-> "Gb"]

FamilyName == [a |-> "Fa", b |-> "Fb"]

\* Identifiers of the target entities that exist before the run.
UserId == [a |-> 1, b |-> 2]

GroupId == [G |-> 3, H |-> 4]

FirstFreeId == Cardinality(Emails) + Cardinality(GroupNames) + 1

(***************************************************************************)
(* Values.                                                                 *)
(***************************************************************************)
\* (*aws.User)(nil)
NoUser == [id |-> 0, username |-> "", email |-> "", given |-> "", family |-> ""]

\* (*aws.Group)(nil)
NoGroup == [id |-> 0, name |-> ""]

\* error(nil)
NoErr == [op |-> "", n |-> 0]

EmptyMap == [x \in {} |-> NoUser]

Put(m, key, v) == [x \in (DOMAIN m) \cup {key} |-> IF x = key THEN v ELSE m[x]]

Range(f) == {f[x] : x \in DOMAIN f}

SeqsUpTo(S, n) == UNION {[1..m -> S] : m \in 0..n}

VARIABLES
  gDeleted, gUsers, gGroups,
  scimUsers, scimGroups, scimMembers, nextId,
  scimUsers0, scimGroups0, scimMembers0,
  pc, err, users, deletedUsers, googleUsers, i, j, uu,
  awsGroups, googleGroups, k, correlatedGroups, group, memberList,
  todoUsers, u, todoGroups,
  calls, rets, run, caller

source == <<gDeleted, gUsers, gGroups, caller>>

target == <<scimUsers, scimGroups, scimMembers, nextId>>

start == <<scimUsers0, scimGroups0, scimMembers0>>

usersLocals == <<deletedUsers, googleUsers, i, j, uu>>

groupsLocals == <<awsGroups, googleGroups, k, correlatedGroups, group, memberList, todoUsers, u, todoGroups>>

vars == <<source, target, start, pc, err, users, usersLocals, groupsLocals, calls, rets, run, caller>>

(***************************************************************************)
(* The directories before the run.                                         *)
(***************************************************************************)
\* Listings of deleted source principals: any emails, repeats included.
DeletedLists == SeqsUpTo(Emails, MaxDeleted)

\* A source principal as the active listing reports it.
GoogleUser(e) == [PrimaryEmail |-> e, GivenName |-> GivenName[e], FamilyName |-> FamilyName[e]]

\* Listings of active source principals: the primary email is unique.
ActiveLists ==
  {[n \in DOMAIN s |-> GoogleUser(s[n])] :
     s \in {t \in SeqsUpTo(Emails, Cardinality(Emails)) :
              \A m, n \in DOMAIN t : m # n => t[m] # t[n]}}

\* Listings of source groups: the display name is not unique in the source.
GroupLists == SeqsUpTo([Name : GroupNames, Members : SUBSET Emails], MaxGoogleGroups)

\* A target principal present before the run; its attributes are not the
\* source's, and its username is its email or another name.
OldUser(e, name) == [id |-> UserId[e], username |-> name, email |-> e, given |-> "Old", family |-> "Old"]

TargetUserSets ==
  {{OldUser(e, IF f[e] = "email" THEN e ELSE Alias[e]) : e \in {x \in Emails : f[x] # "absent"}} :
     f \in [Emails -> {"absent", "email", "alias"}]}

TargetGroupSets == {{[id |-> GroupId[n], name |-> n] : n \in S} : S \in SUBSET GroupNames}

\* The state after New(a, g), before whoever calls the synchroniser (who)
\* makes the first call, with the directories drawn from the given sets.
InitWith(who, deleted, active, srcGroups, tgtUsers, tgtGroups, members) ==
  /\ caller = who
  /\ gDeleted \in deleted
  /\ gUsers \in active
  /\ gGroups \in srcGroups
  /\ scimUsers \in tgtUsers
  /\ scimGroups \in tgtGroups
  /\ scimMembers \in members
  /\ nextId = FirstFreeId
  /\ scimUsers0 = scimUsers
  /\ scimGroups0 = scimGroups
  /\ scimMembers0 = scimMembers
  /\ pc = "GetDeletedUsers"
  /\ err = NoErr
  /\ users = EmptyMap
  /\ deletedUsers = << >>
  /\ googleUsers = << >>
  /\ i = 0
  /\ j = 0
  /\ uu = NoUser
  /\ awsGroups = EmptyMap
  /\ googleGroups = << >>
  /\ k = 0
  /\ correlatedGroups = EmptyMap
  /\ group = NoGroup
  /\ memberList = {}
  /\ todoUsers = {}
  /\ u = NoUser
  /\ todoGroups = {}
  /\ calls = << >>
  /\ rets = << >>
  /\ run = 1

\* The memberships before the run: each target principal is in every target
\* group or in none.
MemberSets == {{x.id : x \in S} \X {g.id : g \in scimGroups} : S \in SUBSET scimUsers}

\* The directories DoSync is explored on.  The emails and the group names are
\* interchangeable, so the first active principal is taken to be a and the
\* first source group to be G.  Principal a is the one whose target username
\* may differ from its email; principal b is the one the source may report
\* deleted.
DoSyncDeleted == {d \in DeletedLists : \A n \in DOMAIN d : d[n] = "b"}

DoSyncActive == {x \in ActiveLists : x # << >> => x[1].PrimaryEmail = "a"}

DoSyncGroups == {x \in GroupLists : x # << >> => x[1].Name = "G"}

DoSyncTargetUsers == {t \in TargetUserSets : \A x \in t : x.email = "b" => x.username = "b"}

Init ==
  InitWith("DoSync", DoSyncDeleted, DoSyncActive, DoSyncGroups,
           DoSyncTargetUsers, TargetGroupSets, MemberSets)

\* SyncUsers called on its own, by a client of the SyncGSuite interface: every
\* listing of the principals, no groups.
InitUsers == InitWith("SyncUsers", DeletedLists, ActiveLists, {<< >>}, TargetUserSets, {{}}, {{}})

(***************************************************************************)
(* The trace of port calls and of method returns.                          *)
(***************************************************************************)
\* One port call: the operation, the source line that issues it, its
\* arguments and whether it succeeded.
Call(op, line, email, uid, gname, gid, ok) ==
  [op |-> op, line |-> line, email |-> email, uid |-> uid, gname |-> gname, gid |-> gid, ok |-> ok, run |-> run]

\* An error of the synchroniser's own in place of the port's.
ErrOf_wrapped(op) == [op |-> "sync", n |-> Len(calls) + 1]

\* The error value the call being issued returns when it fails.
ErrOf(op) == [op |-> op, n |-> Len(calls) + 1]

Log(c) == calls' = Append(calls, c)

\* DoSync going on to SyncGroups whatever SyncUsers returned.
ShortCircuit_never(e) == FALSE

\* if err != nil { return err }, in DoSync after c.SyncUsers()
ShortCircuit(e) == e # NoErr

\* Where control goes when method fn returns e.  DoSync returns the error of
\* SyncUsers at once, calls SyncGroups otherwise, and returns what SyncGroups
\* returns; a caller of SyncUsers alone has its result.
AfterReturn(fn, e) ==
  IF fn = "SyncUsers"
    THEN IF caller = "DoSync"
           THEN IF ShortCircuit(e) THEN "Done" ELSE "AwsGetGroups"
           ELSE "SyncUsersReturn"
    ELSE "Done"

\* return e, from method fn.
Return(fn, e) ==
  /\ err' = e
  /\ pc' = AfterReturn(fn, e)
  /\ rets' = Append(rets, [fn |-> fn, err |-> e, run |-> run, at |-> Len(calls)])

Running(next) ==
  /\ pc' = next
  /\ UNCHANGED <<err, rets>>

(***************************************************************************)
(* The target directory port (package aws), by its contract.               *)
(***************************************************************************)
\* FindUserByEmail: the principal with that primary email, or nil when there
\* is none; a failing lookup returns nil and an error.
FindUserByEmail(email) ==
  {[uu |-> NoUser, ok |-> FALSE]}
    \cup {[uu |-> x, ok |-> TRUE] : x \in {y \in scimUsers : y.email = email}}
    \cup (IF \E y \in scimUsers : y.email = email THEN {} ELSE {[uu |-> NoUser, ok |-> TRUE]})

\* CreateUser: the created principal, with a fresh identifier; its username is
\* the correlation key it was created with, the primary email.
CreatedUser(nu) ==
  [id |-> nextId, username |-> nu.email, email |-> nu.email, given |-> nu.given, family |-> nu.family]

\* CreateUser fails, or succeeds when the target has no principal of that
\* primary email or username yet: both are unique in the target.
CreateUserOutcomes(nu) ==
  {FALSE} \cup (IF \E y \in scimUsers : y.email = nu.email \/ y.username = nu.email THEN {} ELSE {TRUE})

\* CreateGroup fails, or succeeds when the target has no group of that display
\* name yet: the target groups are keyed by display name.
CreateGroupOutcomes(name) ==
  {FALSE} \cup (IF \E g \in scimGroups : g.name = name THEN {} ELSE {TRUE})

\* DeleteUser: the principal and its memberships are gone.
WithoutUser(x) == {m \in scimMembers : m[1] # x.id}

\* DeleteGroup: the group and its memberships are gone.
WithoutGroup(g) == {m \in scimMembers : m[2] # g.id}

\* GetGroups: the target groups keyed by display name.
GroupsByName(gs) == [n \in {g.name : g \in gs} |-> CHOOSE g \in gs : g.name = n]

\* IsUserInGroup
IsUserInGroup(x, g) == <<x.id, g.id>> \in scimMembers

(***************************************************************************)
(* SyncUsers                                                               *)
(***************************************************************************)
\* A port call's error going unchecked.
Failed_never(ok) == FALSE

\* if err != nil, after a port call
Failed(ok) == ~ok

\* The loop over the deleted principals skipping the ones it found too.
SkipDeleted_always(x) == TRUE

\* if uu == nil { continue }, in the loop over the deleted principals
SkipDeleted(x) == x = NoUser

\* The loop over the active principals taking every lookup for a hit.
HasCounterpart_always(x) == TRUE

\* The loop over the active principals creating the ones it found too.
HasCounterpart_never(x) == FALSE

\* if uu != nil, in the loop over the active principals
HasCounterpart(x) == x # NoUser

\* aws.NewUser with the two names in each other's place.
NewUser_swapped(gu) == [given |-> gu.FamilyName, family |-> gu.GivenName, email |-> gu.PrimaryEmail]

\* aws.NewUser(u.Name.GivenName, u.Name.FamilyName, u.PrimaryEmail)
NewUser(gu) == [given |-> gu.GivenName, family |-> gu.FamilyName, email |-> gu.PrimaryEmail]

\* The table filled with every principal of the target directory.
Record_wholeDirectory(x) ==
  [n \in {y.username : y \in scimUsers \cup {x}} |->
     CHOOSE y \in scimUsers \cup {x} : y.username = n]

\* The table keyed by the primary email instead of the username.
Record_byEmail(x) == Put(users, x.email, x)

\* s.users[uu.Username] = uu
Record(x) == Put(users, x.username, x)

\* The next iteration of the loop over the deleted principals, or the
\* statement after it.
NextDeleted(n) == IF n > Len(deletedUsers) THEN "GetUsers" ELSE "FindDeletedUser"

\* The next iteration of the loop over the active principals, or return nil.
NextActive(n) ==
  IF n > Len(googleUsers)
    THEN Return("SyncUsers", NoErr)
    ELSE Running("FindUser")

GetDeletedUsers ==
  /\ pc = "GetDeletedUsers"
  /\ \E ok \in BOOLEAN :
       /\ Log(Call("GetDeletedUsers", 57, "", 0, "", 0, ok))
       /\ IF Failed(ok)
            THEN /\ Return("SyncUsers", ErrOf("GetDeletedUsers"))
                 /\ UNCHANGED <<deletedUsers, i>>
            ELSE /\ deletedUsers' = (IF ok THEN gDeleted ELSE << >>)
                 /\ i' = 1
                 /\ Running(IF deletedUsers' = << >> THEN "GetUsers" ELSE "FindDeletedUser")
  /\ UNCHANGED <<source, target, start, users, googleUsers, j, uu, groupsLocals, run>>

FindDeletedUser ==
  /\ pc = "FindDeletedUser"
  /\ \E r \in FindUserByEmail(deletedUsers[i]) :
       /\ Log(Call("FindUserByEmail", 63, deletedUsers[i], r.uu.id, "", 0, r.ok))
       /\ uu' = r.uu
       /\ IF SkipDeleted(r.uu)
            THEN /\ i' = i + 1
                 /\ Running(NextDeleted(i + 1))
            ELSE /\ i' = i
                 /\ Running("DeleteUser")
  /\ UNCHANGED <<source, target, start, users, deletedUsers, googleUsers, j, groupsLocals, run>>

DeleteUser ==
  /\ pc = "DeleteUser"
  /\ \E ok \in BOOLEAN :
       /\ Log(Call("DeleteUser", 72, uu.email, uu.id, "", 0, ok))
       /\ scimUsers' = (IF ok THEN scimUsers \ {uu} ELSE scimUsers)
       /\ scimMembers' = (IF ok THEN WithoutUser(uu) ELSE scimMembers)
       /\ IF Failed(ok)
            THEN /\ Return("SyncUsers", ErrOf("DeleteUser"))
                 /\ i' = i
            ELSE /\ i' = i + 1
                 /\ Running(NextDeleted(i + 1))
  /\ UNCHANGED <<source, scimGroups, nextId, start, users, deletedUsers, googleUsers, j, uu, groupsLocals, run>>

\* The listing of the active principals with its error unchecked: a failed
\* call is an empty listing.
GetUsers_uncheckedError ==
  /\ pc = "GetUsers"
  /\ \E ok \in BOOLEAN :
       /\ Log(Call("GetUsers", 78, "", 0, "", 0, ok))
       /\ googleUsers' = (IF ok THEN gUsers ELSE << >>)
       /\ j' = 1
       /\ IF googleUsers' = << >>
            THEN Return("SyncUsers", NoErr)
            ELSE Running("FindUser")
  /\ UNCHANGED <<source, target, start, users, deletedUsers, i, uu, groupsLocals, run>>

GetUsers ==
  /\ pc = "GetUsers"
  /\ \E ok \in BOOLEAN :
       /\ Log(Call("GetUsers", 78, "", 0, "", 0, ok))
       /\ IF Failed(ok)
            THEN /\ Return("SyncUsers", ErrOf("GetUsers"))
                 /\ UNCHANGED <<googleUsers, j>>
            ELSE /\ googleUsers' = (IF ok THEN gUsers ELSE << >>)
                 /\ j' = 1
                 /\ IF googleUsers' = << >>
                      THEN Return("SyncUsers", NoErr)
                      ELSE Running("FindUser")
  /\ UNCHANGED <<source, target, start, users, deletedUsers, i, uu, groupsLocals, run>>

FindUser ==
  /\ pc = "FindUser"
  /\ \E r \in FindUserByEmail(googleUsers[j].PrimaryEmail) :
       /\ Log(Call("FindUserByEmail", 89, googleUsers[j].PrimaryEmail, r.uu.id, "", 0, r.ok))
       /\ uu' = r.uu
       /\ IF HasCounterpart(r.uu)
            THEN /\ users' = Record(r.uu)
                 /\ j' = j + 1
                 /\ NextActive(j + 1)
            ELSE /\ users' = users
                 /\ j' = j
                 /\ Running("CreateUser")
  /\ UNCHANGED <<source, target, start, deletedUsers, googleUsers, i, groupsLocals, run>>

CreateUser ==
  /\ pc = "CreateUser"
  /\ \E ok \in CreateUserOutcomes(NewUser(googleUsers[j])) :
       LET new == CreatedUser(NewUser(googleUsers[j]))
       IN
       /\ Log(Call("CreateUser", 96, new.email, IF ok THEN new.id ELSE 0, "", 0, ok))
       /\ scimUsers' = (IF ok THEN scimUsers \cup {new} ELSE scimUsers)
       /\ nextId' = (IF ok THEN nextId + 1 ELSE nextId)
       /\ uu' = (IF ok THEN new ELSE NoUser)
       /\ IF Failed(ok)
            THEN /\ Return("SyncUsers", ErrOf("CreateUser"))
                 /\ UNCHANGED <<users, j>>
            ELSE /\ users' = Record(uu')
                 /\ j' = j + 1
                 /\ NextActive(j + 1)
  /\ UNCHANGED <<source, scimGroups, scimMembers, start, deletedUsers, googleUsers, i, groupsLocals, run>>

(***************************************************************************)
(* SyncGroups                                                              *)
(***************************************************************************)
\* awsGroup, ok := (*awsGroups)[g.Name]
Matched(g) == g.Name \in DOMAIN awsGroups

\* aws.NewGroup(g.Name)
NewGroup(g) == g.Name

\* The group found or created, not remembered as correlated.
Correlate_forgotten(g) == correlatedGroups

\* correlatedGroups[group.DisplayName] = group
Correlate(g) == Put(correlatedGroups, g.name, g)

\* A failed membership check taken for "not a member".
CheckFailed_assumedAbsent(ok) == FALSE

\* if err != nil, after s.aws.IsUserInGroup(u, group)
CheckFailed(ok) == ~ok

\* memberList holding every member of the source group.
FilterMembers_unfiltered(members) == members

\* memberList: the members m of the source group with s.users[m.Email] present.
FilterMembers(members) == {m \in members : m \in DOMAIN users}

\* _, ok := memberList[u.Username]
InMemberList(x) == x.username \in memberList

\* The clean-up loop taking every target group for correlated.
IsCorrelated_always(g) == TRUE

\* _, ok := correlatedGroups[g.DisplayName], in the clean-up loop
IsCorrelated(g) == g.name \in DOMAIN correlatedGroups

\* The clean-up loop over *awsGroups, or return nil when it has nothing to
\* visit.
CleanUp(rest) ==
  /\ todoGroups' = rest
  /\ IF rest = {}
       THEN Return("SyncGroups", NoErr)
       ELSE Running("CleanUp")

\* The next iteration of the loop over the source groups, or the clean-up.
NextGroup(n, gs) ==
  /\ k' = n
  /\ IF n > Len(gs)
       THEN CleanUp(DOMAIN awsGroups)
       ELSE /\ Running("CheckGroup")
            /\ todoGroups' = todoGroups

\* The next iteration of the loop over s.users, or the next source group.
NextUser(rest) ==
  /\ todoUsers' = rest
  /\ IF rest = {}
       THEN NextGroup(k + 1, googleGroups)
       ELSE /\ Running("IsUserInGroup")
            /\ UNCHANGED <<k, todoGroups>>

AwsGetGroups ==
  /\ pc = "AwsGetGroups"
  /\ \E ok \in BOOLEAN :
       /\ Log(Call("AwsGetGroups", 114, "", 0, "", 0, ok))
       /\ IF Failed(ok)
            THEN /\ Return("SyncGroups", ErrOf("AwsGetGroups"))
                 /\ awsGroups' = awsGroups
            ELSE /\ awsGroups' = (IF ok THEN GroupsByName(scimGroups) ELSE EmptyMap)
                 /\ Running("GoogleGetGroups")
  /\ UNCHANGED <<source, target, start, users, usersLocals, googleGroups, k, correlatedGroups, group, memberList, todoUsers, u, todoGroups, run>>

GoogleGetGroups ==
  /\ pc = "GoogleGetGroups"
  /\ \E ok \in BOOLEAN :
       /\ Log(Call("GoogleGetGroups", 120, "", 0, "", 0, ok))
       /\ IF Failed(ok)
            THEN /\ Return("SyncGroups", ErrOf("GoogleGetGroups"))
                 /\ UNCHANGED <<googleGroups, correlatedGroups, k, todoGroups>>
            ELSE /\ googleGroups' = (IF ok THEN gGroups ELSE << >>)
                 /\ correlatedGroups' = EmptyMap
                 /\ NextGroup(1, googleGroups')
  /\ UNCHANGED <<source, target, start, users, usersLocals, awsGroups, group, memberList, todoUsers, u, run>>

FoundGroup ==
  /\ pc = "CheckGroup"
  /\ Matched(googleGroups[k])
  /\ correlatedGroups' = Correlate(awsGroups[googleGroups[k].Name])
  /\ group' = awsGroups[googleGroups[k].Name]
  /\ Running("GetGroupMembers")
  /\ UNCHANGED <<source, target, start, users, usersLocals, awsGroups, googleGroups, k, memberList, todoUsers, u, todoGroups, calls, run>>

CreateGroup ==
  /\ pc = "CheckGroup"
  /\ ~Matched(googleGroups[k])
  /\ \E ok \in CreateGroupOutcomes(NewGroup(googleGroups[k])) :
       LET newGroup == IF ok THEN [id |-> nextId, name |-> NewGroup(googleGroups[k])] ELSE NoGroup
       IN /\ Log(Call("CreateGroup", 142, "", 0, NewGroup(googleGroups[k]), newGroup.id, ok))
          /\ scimGroups' = (IF ok THEN scimGroups \cup {newGroup} ELSE scimGroups)
          /\ nextId' = (IF ok THEN nextId + 1 ELSE nextId)
          /\ IF Failed(ok)
               THEN /\ Return("SyncGroups", ErrOf("CreateGroup"))
                    /\ UNCHANGED <<correlatedGroups, group>>
               ELSE /\ correlatedGroups' = Correlate(newGroup)
                    /\ group' = newGroup
                    /\ Running("GetGroupMembers")
  /\ UNCHANGED <<source, scimUsers, scimMembers, start, users, usersLocals, awsGroups, googleGroups, k, memberList, todoUsers, u, todoGroups, run>>

\* The member filter reading the table with a lookup that files an empty
\* entry under every key it misses.
GetGroupMembers_inserting ==
  /\ pc = "GetGroupMembers"
  /\ \E ok \in BOOLEAN :
       /\ Log(Call("GetGroupMembers", 150, "", 0, googleGroups[k].Name, 0, ok))
       /\ IF Failed(ok)
            THEN /\ Return("SyncGroups", ErrOf("GetGroupMembers"))
                 /\ UNCHANGED <<users, memberList, todoUsers, k, todoGroups>>
            ELSE /\ memberList' = FilterMembers(googleGroups[k].Members)
                 /\ users' = [x \in (DOMAIN users) \cup googleGroups[k].Members |->
                                IF x \in DOMAIN users THEN users[x] ELSE NoUser]
                 /\ NextUser(DOMAIN users)
  /\ UNCHANGED <<source, target, start, usersLocals, awsGroups, googleGroups, correlatedGroups, group, u, run>>

GetGroupMembers ==
  /\ pc = "GetGroupMembers"
  /\ \E ok \in BOOLEAN :
       /\ Log(Call("GetGroupMembers", 150, "", 0, googleGroups[k].Name, 0, ok))
       /\ IF Failed(ok)
            THEN /\ Return("SyncGroups", ErrOf("GetGroupMembers"))
                 /\ UNCHANGED <<memberList, todoUsers, k, todoGroups>>
            ELSE /\ memberList' = FilterMembers(IF ok THEN googleGroups[k].Members ELSE {})
                 /\ NextUser(DOMAIN users)
  /\ UNCHANGED <<source, target, start, users, usersLocals, awsGroups, googleGroups, correlatedGroups, group, u, run>>

\* One iteration of the loop over s.users up to the membership decision; a map
\* is visited in no particular order.
CheckUserInGroup ==
  /\ pc = "IsUserInGroup"
  /\ \E key \in todoUsers, ok \in BOOLEAN :
       LET x == users[key]
           b == ok /\ IsUserInGroup(x, group)
       IN /\ Log(Call("IsUserInGroup", 167, x.email, x.id, group.name, group.id, ok))
          /\ u' = x
          /\ IF CheckFailed(ok)
               THEN /\ Return("SyncGroups", ErrOf("IsUserInGroup"))
                    /\ UNCHANGED <<todoUsers, k, todoGroups>>
               ELSE IF InMemberList(x) /\ ~b
                 THEN /\ Running("AddUserToGroup")
                      /\ todoUsers' = todoUsers \ {key}
                      /\ UNCHANGED <<k, todoGroups>>
                 ELSE IF ~InMemberList(x) /\ b
                   THEN /\ Running("RemoveUserFromGroup")
                        /\ todoUsers' = todoUsers \ {key}
                        /\ UNCHANGED <<k, todoGroups>>
                   ELSE NextUser(todoUsers \ {key})
  /\ UNCHANGED <<source, target, start, users, usersLocals, awsGroups, googleGroups, correlatedGroups, group, memberList, run>>

AddUserToGroup ==
  /\ pc = "AddUserToGroup"
  /\ \E ok \in BOOLEAN :
       /\ Log(Call("AddUserToGroup", 175, u.email, u.id, group.name, group.id, ok))
       /\ scimMembers' = (IF ok THEN scimMembers \cup {<<u.id, group.id>>} ELSE scimMembers)
       /\ IF Failed(ok)
            THEN /\ Return("SyncGroups", ErrOf("AddUserToGroup"))
                 /\ UNCHANGED <<todoUsers, k, todoGroups>>
            ELSE NextUser(todoUsers)
  /\ UNCHANGED <<source, scimUsers, scimGroups, nextId, start, users, usersLocals, awsGroups, googleGroups, correlatedGroups, group, memberList, u, run>>

RemoveUserFromGroup ==
  /\ pc = "RemoveUserFromGroup"
  /\ \E ok \in BOOLEAN :
       /\ Log(Call("RemoveUserFromGroup", 183, u.email, u.id, group.name, group.id, ok))
       /\ scimMembers' = (IF ok THEN scimMembers \ {<<u.id, group.id>>} ELSE scimMembers)
       /\ IF Failed(ok)
            THEN /\ Return("SyncGroups", ErrOf("RemoveUserFromGroup"))
                 /\ UNCHANGED <<todoUsers, k, todoGroups>>
            ELSE NextUser(todoUsers)
  /\ UNCHANGED <<source, scimUsers, scimGroups, nextId, start, users, usersLocals, awsGroups, googleGroups, correlatedGroups, group, memberList, u, run>>

\* An iteration of the clean-up loop that finds its group correlated.
KeepGroup ==
  /\ pc = "CleanUp"
  /\ \E n \in todoGroups :
       /\ IsCorrelated(awsGroups[n])
       /\ CleanUp(todoGroups \ {n})
  /\ UNCHANGED <<source, target, start, users, usersLocals, awsGroups, googleGroups, k, correlatedGroups, group, memberList, todoUsers, u, calls, run>>

\* The deletion of a target group not correlated so far, made while the
\* source groups are still being processed.
DeleteGroup_beforeProcessing ==
  /\ pc = "CheckGroup"
  /\ \E n \in DOMAIN awsGroups :
       LET g == awsGroups[n]
       IN /\ ~IsCorrelated(g)
          /\ g \in scimGroups
          /\ Log(Call("DeleteGroup", 196, "", 0, g.name, g.id, TRUE))
          /\ scimGroups' = scimGroups \ {g}
          /\ scimMembers' = WithoutGroup(g)
          /\ Running("CheckGroup")
  /\ UNCHANGED <<source, scimUsers, nextId, start, users, usersLocals, groupsLocals, run>>

\* An iteration of the clean-up loop that finds its group not correlated.
DeleteGroup ==
  /\ pc = "CleanUp"
  /\ \E n \in todoGroups, ok \in BOOLEAN :
       LET g == awsGroups[n]
       IN /\ ~IsCorrelated(g)
          /\ Log(Call("DeleteGroup", 196, "", 0, g.name, g.id, ok))
          /\ scimGroups' = (IF ok THEN scimGroups \ {g} ELSE scimGroups)
          /\ scimMembers' = (IF ok THEN WithoutGroup(g) ELSE scimMembers)
          /\ IF Failed(ok)
               THEN /\ Return("SyncGroups", ErrOf("DeleteGroup"))
                    /\ todoGroups' = todoGroups
               ELSE CleanUp(todoGroups \ {n})
  /\ UNCHANGED <<source, scimUsers, nextId, start, users, usersLocals, awsGroups, googleGroups, k, correlatedGroups, group, memberList, todoUsers, u, run>>

SyncUsersStep ==
  \/ GetDeletedUsers
  \/ FindDeletedUser
  \/ DeleteUser
  \/ GetUsers
  \/ FindUser
  \/ CreateUser

SyncGroupsStep ==
  \/ AwsGetGroups
  \/ GoogleGetGroups
  \/ FoundGroup
  \/ CreateGroup
  \/ GetGroupMembers
  \/ CheckUserInGroup
  \/ AddUserToGroup
  \/ RemoveUserFromGroup
  \/ KeepGroup
  \/ DeleteGroup

Next ==
  \/ SyncUsersStep
  \/ SyncGroupsStep

Spec == Init /\ [][Next]_vars

\* SyncUsers, called a second time on a new synchroniser once it has returned
\* nil, the source directory being what it was.
SyncUsersAgain ==
  /\ pc = "SyncUsersReturn"
  /\ err = NoErr
  /\ run = 1
  /\ run' = 2
  /\ pc' = "GetDeletedUsers"
  /\ users' = EmptyMap
  /\ deletedUsers' = << >>
  /\ googleUsers' = << >>
  /\ i' = 0
  /\ j' = 0
  /\ uu' = NoUser
  /\ scimUsers0' = scimUsers
  /\ scimGroups0' = scimGroups
  /\ scimMembers0' = scimMembers
  /\ UNCHANGED <<source, target, err, groupsLocals, calls, rets>>

NextUsers ==
  \/ SyncUsersStep
  \/ SyncUsersAgain

SpecUsers == InitUsers /\ [][NextUsers]_vars

(***************************************************************************)
(* DoSync invoked again after a run that returned an error.                *)
(***************************************************************************)
\* The directories the re-invocation is explored on: principal a active,
\* principal b reported deleted or not, one or two source groups whose members
\* are among the active principals and whose display names may coincide.
AgainDeleted == {<< >>, <<"b">>}

AgainActive == {<<GoogleUser("a")>>}

AgainGroups ==
  {x \in UNION {[1..m -> [Name : GroupNames, Members : SUBSET {"a"}]] : m \in {1, 2}} :
     x[1].Name = "G"}

InitAgain ==
  InitWith("DoSync", AgainDeleted, AgainActive, AgainGroups,
           DoSyncTargetUsers, TargetGroupSets, MemberSets)

\* The operator runs DoSync again after it returned an error: new clients, a
\* new synchroniser with an empty table, the directories as the aborted run
\* left them.
DoSyncAgain ==
  /\ pc = "Done"
  /\ err # NoErr
  /\ run = 1
  /\ run' = 2
  /\ pc' = "GetDeletedUsers"
  /\ err' = NoErr
  /\ users' = EmptyMap
  /\ deletedUsers' = << >>
  /\ googleUsers' = << >>
  /\ i' = 0
  /\ j' = 0
  /\ uu' = NoUser
  /\ awsGroups' = EmptyMap
  /\ googleGroups' = << >>
  /\ k' = 0
  /\ correlatedGroups' = EmptyMap
  /\ group' = NoGroup
  /\ memberList' = {}
  /\ todoUsers' = {}
  /\ u' = NoUser
  /\ todoGroups' = {}
  /\ scimUsers0' = scimUsers
  /\ scimGroups0' = scimGroups
  /\ scimMembers0' = scimMembers
  /\ UNCHANGED <<source, target, calls, rets>>

NextAgain ==
  \/ SyncUsersStep
  \/ SyncGroupsStep
  \/ DoSyncAgain

SpecAgain == InitAgain /\ [][NextAgain]_vars

(***************************************************************************)
(* Properties                                                              *)
(***************************************************************************)
\* DoSync has returned nil.
Success == pc = "Done" /\ err = NoErr

\* SyncUsers, called on its own, has returned nil.
UsersSuccess == pc = "SyncUsersReturn" /\ err = NoErr

\* The port calls of the current run.
ThisRun == {n \in DOMAIN calls : calls[n].run = run}

GroupPassOps ==
  {"AwsGetGroups", "GoogleGetGroups", "CreateGroup", "DeleteGroup",
   "GetGroupMembers", "IsUserInGroup", "AddUserToGroup", "RemoveUserFromGroup"}

MutatingOps ==
  {"CreateUser", "DeleteUser", "CreateGroup", "DeleteGroup", "AddUserToGroup", "RemoveUserFromGroup"}

\* C1: every port call of the group pass comes after SyncUsers has returned
\* nil; once SyncUsers has returned an error there is no such call, and DoSync
\* has returned that error.
C1_GroupsAfterUsers ==
  /\ \A n \in DOMAIN calls :
       calls[n].op \in GroupPassOps =>
         \E r \in DOMAIN rets : rets[r].fn = "SyncUsers" /\ rets[r].err = NoErr /\ rets[r].at < n
  /\ \A r \in DOMAIN rets :
       (rets[r].fn = "SyncUsers" /\ rets[r].err # NoErr) =>
         /\ \A n \in DOMAIN calls : calls[n].op \notin GroupPassOps
         /\ pc = "Done"
         /\ err = rets[r].err

\* The group pass has added a member, after a principal pass that created a
\* principal.
C1_Witness ==
  /\ Success
  /\ \E m, n \in DOMAIN calls : m < n /\ calls[m].op = "CreateUser" /\ calls[n].op = "AddUserToGroup"

\* The target principals with primary email e.
Counterparts(e, us) == {x \in us : x.email = e}

\* C2: when SyncUsers has returned nil, every active source principal that had
\* no target principal of its primary email when the run started has exactly
\* one now, with the source's given name and family name.
C2_CreatedOnce ==
  UsersSuccess =>
    \A n \in DOMAIN gUsers :
      Counterparts(gUsers[n].PrimaryEmail, scimUsers0) = {} =>
        /\ Cardinality(Counterparts(gUsers[n].PrimaryEmail, scimUsers)) = 1
        /\ \A x \in Counterparts(gUsers[n].PrimaryEmail, scimUsers) :
             x.given = gUsers[n].GivenName /\ x.family = gUsers[n].FamilyName

\* Two active principals, an empty target: SyncUsers has returned nil and the
\* target holds two principals.
C2_Witness ==
  /\ UsersSuccess
  /\ run = 1
  /\ Len(gUsers) = 2
  /\ scimUsers0 = {}
  /\ Cardinality(scimUsers) = 2

\* A lookup of email e in the loop over the deleted principals has failed in
\* this run.
DeletedLookupFailed(e) ==
  \E n \in ThisRun :
    calls[n].op = "FindUserByEmail" /\ calls[n].line = 63 /\ calls[n].email = e /\ ~calls[n].ok

C4_SecondRunIdle ==
  (UsersSuccess /\ run = 2 /\ \A n \in DOMAIN calls : calls[n].ok) =>
    \A n \in ThisRun : calls[n].op \notin {"CreateUser", "DeleteUser"}

\* The display names of the source groups.
SourceNames == {gGroups[n].Name : n \in DOMAIN gGroups}

Names(gs) == {g.name : g \in gs}

\* C5, as claimed: when DoSync has returned nil, every principal of the
\* correlation table is a member of the target group correlated to a source
\* group exactly when its email is in that source group's member list.
C5_MembershipMirrorsSource ==
  Success =>
    \A n \in DOMAIN gGroups :
      \A x \in Range(users) :
        IsUserInGroup(x, correlatedGroups[gGroups[n].Name]) <=> x.email \in gGroups[n].Members

\* C6: when DoSync has returned nil, every target group that existed when the
\* run started is gone if its display name is no source group's, and is still
\* there if it is one; no group of a source group's name has been deleted.
C6_UncorrelatedDeleted ==
  Success =>
    /\ \A g \in scimGroups0 : g \in scimGroups <=> g.name \in SourceNames
    /\ \A n \in DOMAIN calls :
         (calls[n].op = "DeleteGroup" /\ calls[n].ok) => calls[n].gname \notin SourceNames

\* The target held G and H, the source lists G: H is deleted, G is kept.
C6_Witness ==
  /\ Success
  /\ Names(scimGroups0) = {"G", "H"}
  /\ SourceNames = {"G"}
  /\ Names(scimGroups) = {"G"}

\* C7: when DoSync has returned nil, the target groups have the display names
\* of the source groups: a group of such a name that existed when the run
\* started is the one still there and no CreateGroup was called for its name,
\* and for a name that was absent a CreateGroup call has succeeded.
C7_GroupsMirrorSource ==
  Success =>
    /\ Names(scimGroups) = SourceNames
    /\ \A g \in scimGroups0 :
         g.name \in SourceNames =>
           /\ g \in scimGroups
           /\ \A n \in DOMAIN calls : calls[n].op = "CreateGroup" => calls[n].gname # g.name
    /\ \A name \in SourceNames \ Names(scimGroups0) :
         \E n \in DOMAIN calls :
           /\ calls[n].op = "CreateGroup" /\ calls[n].ok /\ calls[n].gname = name
           /\ [id |-> calls[n].gid, name |-> name] \in scimGroups

\* The source lists G, the target held H only: G is created, H deleted.
C7_Witness ==
  /\ Success
  /\ Names(scimGroups0) = {"H"}
  /\ SourceNames = {"G"}
  /\ \E n \in DOMAIN calls : calls[n].op = "CreateGroup" /\ calls[n].ok

\* C8: once the call listing the deleted principals has failed, SyncUsers has
\* returned that error, it has made no other port call, the target principals
\* are the ones the run started with and the correlation table is empty.
C8_DeletedFetchFailure ==
  \A n \in ThisRun :
    (calls[n].op = "GetDeletedUsers" /\ ~calls[n].ok) =>
      /\ pc = "SyncUsersReturn"
      /\ err = [op |-> "GetDeletedUsers", n |-> n]
      /\ n = Len(calls)
      /\ \A m \in ThisRun : calls[m].op \notin {"CreateUser", "DeleteUser"}
      /\ scimUsers = scimUsers0
      /\ users = EmptyMap

\* The listing of the deleted principals has failed, with a target principal
\* to delete and a source principal to create.
C8_Witness ==
  /\ pc = "SyncUsersReturn"
  /\ err.op = "GetDeletedUsers"
  /\ gDeleted = <<"a">>
  /\ Counterparts("a", scimUsers) # {}
  /\ \E n \in DOMAIN gUsers : Counterparts(gUsers[n].PrimaryEmail, scimUsers) = {}

\* C9: a step that leaves a failed mutating call in the trace leaves it as
\* the last call, with DoSync returned and its error that call's error, and
\* does not change the target directory: what was applied before stays.
C9_MutationFailureAborts ==
  [][\A n \in DOMAIN calls' :
       (calls'[n].op \in MutatingOps /\ ~calls'[n].ok) =>
         /\ n = Len(calls')
         /\ pc' = "Done"
         /\ err' = [op |-> calls'[n].op, n |-> n]
         /\ UNCHANGED <<scimUsers, scimGroups, scimMembers>>]_vars

\* AddUserToGroup has failed after CreateUser and CreateGroup succeeded: the
\* principal and the group created are in the target.
C9_Witness ==
  /\ pc = "Done"
  /\ calls # << >>
  /\ calls[Len(calls)].op = "AddUserToGroup"
  /\ ~calls[Len(calls)].ok
  /\ \E m, n \in DOMAIN calls :
       /\ calls[m].op = "CreateUser" /\ calls[m].ok
       /\ calls[n].op = "CreateGroup" /\ calls[n].ok
       /\ \E x \in scimUsers : x.id = calls[m].uid
       /\ \E g \in scimGroups : g.id = calls[n].gid

\* C10: a failed IsUserInGroup call is the last port call of the run, and
\* DoSync has returned its error.
C10_CheckFailureAborts ==
  \A n \in DOMAIN calls :
    (calls[n].op = "IsUserInGroup" /\ ~calls[n].ok) =>
      /\ n = Len(calls)
      /\ pc = "Done"
      /\ err = [op |-> "IsUserInGroup", n |-> n]

\* The check has failed for a principal who is in the source group's member
\* list and not in the target group, with another principal still to visit.
C10_Witness ==
  /\ pc = "Done"
  /\ err.op = "IsUserInGroup"
  /\ InMemberList(u)
  /\ ~IsUserInGroup(u, group)
  /\ todoUsers \ {u.username} # {}

\* C11: no return is made by the step of a failed FindUserByEmail call, and no
\* return carries its error; after a failed lookup in the loop over the
\* deleted principals the next call is the next lookup or the listing of the
\* active principals, not DeleteUser; after a failed lookup in the loop over
\* the active principals the next call is CreateUser for the same email.
C11_LookupFailureSwallowed ==
  /\ \A r \in DOMAIN rets : rets[r].err.op # "FindUserByEmail"
  /\ \A n \in DOMAIN calls :
       (calls[n].op = "FindUserByEmail" /\ ~calls[n].ok) =>
         /\ \A r \in DOMAIN rets : rets[r].at # n - 1
         /\ calls[n].line = 63 =>
              IF n = Len(calls)
                THEN pc \in {"FindDeletedUser", "GetUsers"}
                ELSE calls[n + 1].op \in {"FindUserByEmail", "GetUsers"}
         /\ calls[n].line = 89 =>
              IF n = Len(calls)
                THEN pc = "CreateUser"
                ELSE calls[n + 1].op = "CreateUser" /\ calls[n + 1].email = calls[n].email

\* A lookup has failed in each loop, the principal of the second one has been
\* created and SyncUsers has returned nil.
C11_Witness ==
  /\ UsersSuccess
  /\ run = 1
  /\ \E n \in DOMAIN calls :
       calls[n].op = "FindUserByEmail" /\ calls[n].line = 63 /\ ~calls[n].ok
  /\ \E n \in DOMAIN calls :
       /\ calls[n].op = "FindUserByEmail" /\ calls[n].line = 89 /\ ~calls[n].ok
       /\ n < Len(calls)
       /\ calls[n + 1].op = "CreateUser" /\ calls[n + 1].ok

\* The primary emails of the active source principals.
ActiveEmails == {gUsers[n].PrimaryEmail : n \in DOMAIN gUsers}

SecondRunUnfailed == run = 2 /\ pc = "Done" /\ \A n \in ThisRun : calls[n].ok

\* No two source groups share a display name.
DistinctNames == \A m, n \in DOMAIN gGroups : m # n => gGroups[m].Name # gGroups[n].Name

\* C13, as claimed, on the source listings whose display names are distinct:
\* a run of DoSync that follows an aborted run on the same source directory
\* and in which no port call fails returns nil and leaves a
\* target principal for every active source principal, the target groups
\* named as the source groups, and every principal of the correlation table a
\* member of the group correlated to a source group exactly when its email is
\* in that source group's member list.
C13_ConvergesAfterAbort ==
  (SecondRunUnfailed /\ DistinctNames) =>
    /\ err = NoErr
    /\ \A e \in ActiveEmails : Counterparts(e, scimUsers) # {}
    /\ Names(scimGroups) = SourceNames
    /\ \A n \in DOMAIN gGroups :
         \A x \in Range(users) :
           IsUserInGroup(x, correlatedGroups[gGroups[n].Name]) <=> x.email \in gGroups[n].Members

\* The statements of SyncGroups.
GroupPassPcs ==
  {"AwsGetGroups", "GoogleGetGroups", "CheckGroup", "GetGroupMembers",
   "IsUserInGroup", "AddUserToGroup", "RemoveUserFromGroup", "CleanUp"}

\* C14: no step of SyncGroups, whether it goes on, returns nil or returns an
\* error, changes the correlation table: its keys and entries stay what
\* SyncUsers left.
C14_TableReadOnly == [][(pc \in GroupPassPcs) => UNCHANGED users]_vars

\* SyncGroups has returned nil after adding a principal to a group and
\* deleting a group, with two principals in the table.
C14_Witness ==
  /\ Success
  /\ Cardinality(DOMAIN users) = 2
  /\ \E n \in DOMAIN calls : calls[n].op = "AddUserToGroup" /\ calls[n].ok
  /\ \E n \in DOMAIN calls : calls[n].op = "DeleteGroup" /\ calls[n].ok

\* The emails of the principals of the correlation table.
TableEmails == {x.email : x \in Range(users)}

\* The identifiers of the target groups correlated to the source groups named
\* name: the one that existed when the run started, the ones created.
CorrelatedIds(name) ==
  {g.id : g \in {x \in scimGroups0 : x.name = name}}
    \cup {calls[n].gid : n \in {m \in DOMAIN calls :
                                  calls[m].op = "CreateGroup" /\ calls[m].ok /\ calls[m].gname = name}}

\* The source group being processed when port call n is made: each source
\* group processed has one GetGroupMembers call, in listing order.
GroupOf(n) ==
  Cardinality({m \in DOMAIN calls :
                 m <= n /\ calls[m].run = calls[n].run /\ calls[m].op = "GetGroupMembers"})

\* The source group of this position is the only one of its display name.
NameUnshared(n) == \A m \in DOMAIN gGroups : gGroups[m].Name = gGroups[n].Name => m = n

\* C15: in the group pass memberList holds no email that no principal of the
\* correlation table has, and no IsUserInGroup, AddUserToGroup or
\* RemoveUserFromGroup call is made for such an email, so no error comes of
\* it; when DoSync has returned nil a source group none of whose members is in
\* the table is correlated to a target group that exists, no AddUserToGroup
\* call was made while it was processed, and that target group has gained no
\* member unless another source group shares the display name.
C15_UnknownMembersIgnored ==
  /\ pc \in GroupPassPcs => memberList \subseteq TableEmails
  /\ \A n \in DOMAIN calls :
       calls[n].op \in {"IsUserInGroup", "AddUserToGroup", "RemoveUserFromGroup"} =>
         calls[n].email \in TableEmails
  /\ Success =>
       \A n \in DOMAIN gGroups :
         gGroups[n].Members \cap TableEmails = {} =>
           /\ gGroups[n].Name \in DOMAIN correlatedGroups
           /\ correlatedGroups[gGroups[n].Name] \in scimGroups
           /\ \A m \in DOMAIN calls :
                (calls[m].op = "AddUserToGroup" /\ GroupOf(m) = n) => FALSE
           /\ NameUnshared(n) =>
                \A m \in scimMembers : m[2] \in CorrelatedIds(gGroups[n].Name) => m \in scimMembers0

\* The source lists a as active and group G with member b alone; the target
\* held principal b and no group: G is created, b is not in the table, and G
\* has no member when DoSync returns nil.
C15_Witness ==
  /\ Success
  /\ ActiveEmails = {"a"}
  /\ gDeleted = << >>
  /\ gGroups = <<[Name |-> "G", Members |-> {"b"}]>>
  /\ Counterparts("b", scimUsers) # {}
  /\ scimGroups0 = {}
  /\ "G" \in Names(scimGroups)
  /\ scimMembers = {}
  /\ DOMAIN users # {}

\* C16: when the lookup of an active source principal has found a target
\* principal, that principal is in the table under its username, it is in the
\* target as it was when the run started, attributes included, and the run
\* has called neither CreateUser nor DeleteUser for its primary email.
C16_FoundIsKept ==
  \A n \in ThisRun :
    (calls[n].op = "FindUserByEmail" /\ calls[n].line = 89 /\ calls[n].uid # 0) =>
      /\ \E x \in scimUsers \cap scimUsers0 :
           /\ x.id = calls[n].uid
           /\ x.email = calls[n].email
           /\ x.username \in DOMAIN users
           /\ users[x.username] = x
      /\ \A m \in ThisRun :
           calls[m].op \in {"CreateUser", "DeleteUser"} => calls[m].email # calls[n].email

\* Principal a is found with names that are not the source's: SyncUsers has
\* returned nil and the target holds it with the names it had.
C16_Witness ==
  /\ UsersSuccess
  /\ run = 1
  /\ \E n \in DOMAIN gUsers :
       \E x \in scimUsers :
         /\ x.email = gUsers[n].PrimaryEmail
         /\ x.given # gUsers[n].GivenName
         /\ x.family # gUsers[n].FamilyName
         /\ x.username \in DOMAIN users
  /\ \E n \in DOMAIN calls : calls[n].op = "CreateUser" /\ calls[n].ok

\* The port calls SyncGroups makes before the clean-up.
ProcessingOps ==
  {"CreateGroup", "GetGroupMembers", "IsUserInGroup", "AddUserToGroup", "RemoveUserFromGroup"}

\* C17: within a run the port call that follows a DeleteGroup call is a
\* DeleteGroup call, so none but DeleteGroup calls come after one; and when
\* the run has returned the error of a call made while a source group was
\* processed, no DeleteGroup call has been made and every target group the
\* run started with is still there.
C17_DeleteAfterProcessing ==
  /\ \A n \in DOMAIN calls :
       (n > 1 /\ calls[n - 1].run = calls[n].run /\ calls[n - 1].op = "DeleteGroup") =>
         calls[n].op = "DeleteGroup"
  /\ (pc = "Done" /\ err.op \in ProcessingOps) =>
       /\ \A n \in ThisRun : calls[n].op # "DeleteGroup"
       /\ scimGroups0 \subseteq scimGroups

\* The source lists G, the target held H only: G has been created and
\* processed, then H deleted.
C17_Witness ==
  /\ Success
  /\ Names(scimGroups0) = {"H"}
  /\ \E l, m, n \in DOMAIN calls :
       /\ l < m /\ m < n
       /\ calls[l].op = "CreateGroup" /\ calls[l].ok
       /\ calls[m].op = "IsUserInGroup"
       /\ calls[n].op = "DeleteGroup" /\ calls[n].ok

\* The primary emails the source reports deleted.
DeletedEmails == {gDeleted[n] : n \in DOMAIN gDeleted}

\* The target principals the run started with whose primary email is neither
\* an active source principal's nor one the source reports deleted.
Uncorrelated == {x \in scimUsers0 : x.email \notin ActiveEmails \cup DeletedEmails}

\* C18: at every point of a run a target principal that correlates to no
\* source principal is in the target as it was, is not in the correlation
\* table, has been the subject of no DeleteUser, IsUserInGroup, AddUserToGroup
\* or RemoveUserFromGroup call, and is a member of each target group that
\* exists exactly when it was one when the run started.
C18_UncorrelatedUntouched ==
  \A x \in Uncorrelated :
    /\ x \in scimUsers
    /\ x \notin Range(users)
    /\ \A n \in DOMAIN calls :
         calls[n].op \in {"DeleteUser", "IsUserInGroup", "AddUserToGroup", "RemoveUserFromGroup"} =>
           calls[n].uid # x.id
    /\ \A g \in scimGroups : <<x.id, g.id>> \in scimMembers <=> <<x.id, g.id>> \in scimMembers0

\* The source lists a and group G; the target held b, a member of G and of H:
\* DoSync has returned nil after checking the membership of a, H is deleted
\* and b is still a member of G.
C18_Witness ==
  /\ Success
  /\ ActiveEmails = {"a"}
  /\ \E x \in Uncorrelated :
       /\ x.email = "b"
       /\ \E g \in scimGroups : g.name = "G" /\ <<x.id, g.id>> \in scimMembers
       /\ \E g \in scimGroups0 \ scimGroups : <<x.id, g.id>> \in scimMembers0
  /\ \E n \in DOMAIN calls : calls[n].op = "IsUserInGroup" /\ calls[n].email = "a"

\* C19: within a run every DeleteUser call comes before the listing of the
\* active principals and before every CreateUser call; and when that listing
\* has failed it is the last call of the run, SyncUsers has returned its
\* error, the run has called no CreateUser, the table is empty and the target
\* principals are the ones the run started with less the ones it deleted.
C19_DeleteBeforeCreate ==
  /\ \A m, n \in DOMAIN calls :
       (/\ calls[m].run = calls[n].run
        /\ calls[m].op = "DeleteUser"
        /\ calls[n].op \in {"GetUsers", "CreateUser"}) => m < n
  /\ \A n \in ThisRun :
       (calls[n].op = "GetUsers" /\ ~calls[n].ok) =>
         /\ n = Len(calls)
         /\ pc = "SyncUsersReturn"
         /\ err = [op |-> "GetUsers", n |-> n]
         /\ \A m \in ThisRun : calls[m].op # "CreateUser"
         /\ users = EmptyMap
         /\ scimUsers =
              {x \in scimUsers0 :
                 \A m \in ThisRun : (calls[m].op = "DeleteUser" /\ calls[m].ok) => calls[m].uid # x.id}

\* The listing of the active principals has failed after a principal was
\* deleted, with an active source principal that has no target principal.
C19_Witness ==
  /\ pc = "SyncUsersReturn"
  /\ err.op = "GetUsers"
  /\ run = 1
  /\ \E n \in DOMAIN calls : calls[n].op = "DeleteUser" /\ calls[n].ok
  /\ scimUsers # scimUsers0
  /\ \E e \in ActiveEmails : Counterparts(e, scimUsers) = {}

\* The CreateGroup calls of the current run.
CreateGroupCalls == {n \in ThisRun : calls[n].op = "CreateGroup"}

\* C20, as claimed: within a run no two CreateGroup calls are for the same
\* display name, and none is for a display name of the target groups fetched
\* when the run started, whatever the source listing.
C20_CreateGroupOnce ==
  /\ \A m, n \in CreateGroupCalls : m # n => calls[m].gname # calls[n].gname
  /\ \A n \in CreateGroupCalls : calls[n].gname \notin Names(scimGroups0)

====
